---- MODULE Spec2Model ----
(***************************************************************************)
(* A model of youtube-channels-script: the command-line run of main.py     *)
(* (input classification, spreadsheet authentication, local store setup,   *)
(* the single-video path and the channel batch loop), the transcript       *)
(* resolver and statistics fetch of youtube_api.py, the SQLite upsert of   *)
(* database.py and the spreadsheet batch upsert of google_sheets.py.       *)
(*                                                                         *)
(* Python strings are TLA+ strings (TLC gives Len, SubSeq and \o on them), *)
(* None is the string NoneVal where a value may be absent.  The remote     *)
(* providers (metadata, transcript, spreadsheet) are the environment: each *)
(* call either returns, raises an Exception or is hit by a user interrupt  *)
(* (KeyboardInterrupt), chosen nondeterministically.                       *)
(***************************************************************************)
EXTENDS Integers, Sequences, FiniteSets, TLC

\* ------------------------------------------------------------------ bounds
\* Largest playlist the whole-run specification enumerates.
MaxPlaylist == 1
\* Largest identifier list handed to the batch loop on its own.
MaxVideos == 120
\* User interrupts delivered in one run.
MaxInterrupts == 1
\* insert_video calls in one store history.
MaxInserts == 3
\* batch_insert_videos calls in one sheet history.
MaxSheetBatches == 2
\* The longest list of identifiers handed to the batch loop with a sheet.
MaxFetch == 101
\* Pages of one uploads playlist, and identifiers on one page, when the
\* enumeration is checked on its own.
MaxPages == 3
MaxPageLen == 2

\* ------------------------------------------------------- program constants
\* range(0, len(video_ids), 50)
BatchSize == 50
\* [\w-]{11}
VideoIdLen == 11
\* ^UC[\w-]{22}$
ChannelIdTail == 22

NoneVal == "<None>"

\* ------------------------------------------------------------------ strings
IdCharString == "abcdefghijklmnopqrstuvwxyzABCDEFGHIJKLMNOPQRSTUVWXYZ0123456789_-"

\* The characters of the regular expression class [\w-] (ASCII part).
IdChars == {SubSeq(IdCharString, i, i) : i \in 1..Len(IdCharString)}

\* Python's str.isspace characters that the inputs of this model use.
SpaceChars == {" ", "\n", "\t"}

CharAt(s, i) == SubSeq(s, i, i)

\* s[i:i+len(lit)] == lit
MatchAt(s, i, lit) ==
    /\ i >= 1
    /\ i + Len(lit) - 1 <= Len(s)
    /\ SubSeq(s, i, i + Len(lit) - 1) = lit

\* n characters of [\w-] starting at position from.
IsIdRun(s, from, n) ==
    /\ from >= 1
    /\ from + n - 1 <= Len(s)
    /\ \A k \in from..(from + n - 1) : CharAt(s, k) \in IdChars

\* str.startswith
StartsWith(s, lit) == MatchAt(s, 1, lit)

\* Length of the longest run of [\w-] characters starting at position from:
\* what the greedy group ([\w-]+) captures.
RECURSIVE IdRunLen(_, _)
IdRunLen(s, from) ==
    IF from <= Len(s) /\ CharAt(s, from) \in IdChars
    THEN 1 + IdRunLen(s, from + 1)
    ELSE 0

\* str.strip(): leading and trailing whitespace removed.
RECURSIVE LStrip(_)
LStrip(s) ==
    IF Len(s) > 0 /\ CharAt(s, 1) \in SpaceChars
    THEN LStrip(SubSeq(s, 2, Len(s)))
    ELSE s

RECURSIVE RStrip(_)
RStrip(s) ==
    IF Len(s) > 0 /\ CharAt(s, Len(s)) \in SpaceChars
    THEN RStrip(SubSeq(s, 1, Len(s) - 1))
    ELSE s

Strip(s) == RStrip(LStrip(s))

\* " ".join(parts)
RECURSIVE Join(_)
Join(parts) ==
    IF Len(parts) = 0 THEN ""
    ELSE IF Len(parts) = 1 THEN parts[1]
    ELSE parts[1] \o " " \o Join(Tail(parts))

\* ",".join(ids) is sent to the provider; the provider reads the list back.

Min(a, b) == IF a < b THEN a ELSE b

\* -------------------------------------------------------------- classifier
\* re.match(r"^[\w-]{11}$", s): $ also matches before one trailing newline.
FullMatchId(s, n) ==
    \/ Len(s) = n /\ IsIdRun(s, 1, n)
    \/ Len(s) = n + 1 /\ IsIdRun(s, 1, n) /\ CharAt(s, n + 1) = "\n"

\* Positions where one of the literals lits is followed by n [\w-] characters.
FixedHits(s, lits, n) ==
    {i \in 1..Len(s) : \E l \in lits : MatchAt(s, i, l) /\ IsIdRun(s, i + Len(l), n)}

\* re.search(r"(?:l1|l2|...)([\w-]{n})", s).group(1), NoneVal when no match.
SearchFixed(s, lits, n) ==
    LET hits == FixedHits(s, lits, n) IN
    IF hits = {} THEN NoneVal
    ELSE LET i == CHOOSE h \in hits : \A g \in hits : h <= g
             l == CHOOSE x \in lits : MatchAt(s, i, x) /\ IsIdRun(s, i + Len(x), n)
         IN SubSeq(s, i + Len(l), i + Len(l) + n - 1)

\* Positions where the literal lit is followed by at least one [\w-] character.
GreedyHits(s, lit) ==
    {i \in 1..Len(s) : MatchAt(s, i, lit) /\ IsIdRun(s, i + Len(lit), 1)}

\* re.search(r"lit([\w-]+)", s).group(1), NoneVal when no match.
SearchGreedy(s, lit) ==
    LET hits == GreedyHits(s, lit) IN
    IF hits = {} THEN NoneVal
    ELSE LET i == CHOOSE h \in hits : \A g \in hits : h <= g
             from == i + Len(lit)
         IN SubSeq(s, from, from + IdRunLen(s, from) - 1)

\* video_patterns, in order.
VideoPatterns ==
    << {"youtube.com/watch?v=", "youtu.be/"},
       {"youtube.com/embed/"},
       {"youtube.com/v/"} >>

\* patterns of extract_channel_id, in order.
ChannelPatterns ==
    << "youtube.com/channel/", "youtube.com/@", "youtube.com/c/", "youtube.com/user/" >>

\* The first pattern of pats (from index k) that matches decides.
RECURSIVE FirstVideoMatch(_, _)
FirstVideoMatch(s, k) ==
    IF k > Len(VideoPatterns) THEN NoneVal
    ELSE LET m == SearchFixed(s, VideoPatterns[k], VideoIdLen) IN
         IF m # NoneVal THEN m ELSE FirstVideoMatch(s, k + 1)

extract_video_id(input_string) ==
    IF FullMatchId(input_string, VideoIdLen) THEN input_string
    ELSE FirstVideoMatch(input_string, 1)

RECURSIVE FirstChannelMatch(_, _)
FirstChannelMatch(s, k) ==
    IF k > Len(ChannelPatterns) THEN NoneVal
    ELSE LET m == SearchGreedy(s, ChannelPatterns[k]) IN
         IF m # NoneVal THEN m ELSE FirstChannelMatch(s, k + 1)

\* ^UC[\w-]{22}$ (with the trailing-newline case of $).
IsChannelIdShape(s) ==
    /\ StartsWith(s, "UC")
    /\ \/ Len(s) = 2 + ChannelIdTail /\ IsIdRun(s, 3, ChannelIdTail)
       \/ /\ Len(s) = 3 + ChannelIdTail
          /\ IsIdRun(s, 3, ChannelIdTail)
          /\ CharAt(s, Len(s)) = "\n"

extract_channel_id(input_string) ==
    IF IsChannelIdShape(input_string) THEN input_string
    ELSE LET m == FirstChannelMatch(input_string, 1) IN
         IF m # NoneVal THEN m ELSE input_string

\* ------------------------------------------------------------ provider data
\* Optional numbers: None is the empty sequence, a present value n is <<n>>.
NoneInt == <<>>
SomeInt(n) == <<n>>

Digits == "0123456789"

DigitVal(c) == (CHOOSE d \in 1..10 : CharAt(Digits, d) = c) - 1

\* int(s) for a string of decimal digits.
RECURSIVE ParseInt(_)
ParseInt(s) ==
    IF Len(s) = 0 THEN 0
    ELSE 10 * ParseInt(SubSeq(s, 1, Len(s) - 1)) + DigitVal(CharAt(s, Len(s)))

\* The statistics keys get_video_statistics reads.
StatKeys == {"viewCount", "likeCount", "commentCount"}

ThumbKinds == {"maxres", "high", "default"}

\* What one videos.list response exposes for its items: the statistics the
\* provider omits and the thumbnails it gives.
Profiles ==
    { [omit |-> {}, thumbs |-> ThumbKinds],
      [omit |-> {"likeCount"}, thumbs |-> {"high", "default"}] }

ThumbUrl(id, kind) == "https://i.ytimg.com/vi/" \o id \o "/" \o kind \o ".jpg"

\* One item of a videos.list response.
ItemOf(id, prof) ==
    [ id |-> id,
      title |-> "Title " \o id,
      publishedAt |-> "2024-01-01T00:00:00Z",
      thumbs |-> prof.thumbs,
      statistics |-> [key \in StatKeys \ prof.omit |->
                        CASE key = "viewCount" -> "1200"
                          [] key = "likeCount" -> "34"
                          [] OTHER -> "5"] ]

\* thumbnails.get("maxres", {}).get("url") or ...high... or ...default...
ThumbnailOf(item) ==
    IF "maxres" \in item.thumbs THEN ThumbUrl(item.id, "maxres")
    ELSE IF "high" \in item.thumbs THEN ThumbUrl(item.id, "high")
    ELSE IF "default" \in item.thumbs THEN ThumbUrl(item.id, "default")
    ELSE NoneVal

\* int(stats[key]) if key in stats else None
StatOf(item, key) ==
    IF key \in DOMAIN item.statistics
    THEN SomeInt(ParseInt(item.statistics[key]))
    ELSE NoneInt

\* f"https://www.youtube.com/watch?v={video_id}"
VideoUrl(id) == "https://www.youtube.com/watch?v=" \o id

\* The video_info dictionary of get_video_statistics.
VideoInfo(item, transcript_text) ==
    [ id |-> item.id,
      title |-> item.title,
      video_url |-> VideoUrl(item.id),
      thumbnail_url |-> ThumbnailOf(item),
      published_at |-> item.publishedAt,
      view_count |-> StatOf(item, "viewCount"),
      like_count |-> StatOf(item, "likeCount"),
      comment_count |-> StatOf(item, "commentCount"),
      transcript |-> transcript_text ]

\* The segment texts one transcript.fetch() may return.
SegmentLists ==
    { <<>>, <<" ">>, <<"a", "b">>, <<" a", "b ">> }

\* The joined text returned whatever it holds.
TranscriptResultRaw(segments) == Join(segments)

\* transcript_text if transcript_text.strip() else None
TranscriptResult(segments) ==
    LET transcript_text == Join(segments) IN
    IF Strip(transcript_text) # "" THEN transcript_text ELSE NoneVal

\* The identifier of the n-th video of a playlist (11 identifier characters).
VidOf(n) ==
    LET d == ToString(n) IN SubSeq("vid00000000", 1, VideoIdLen - Len(d)) \o d

\* video_ids[i : i + 49]: a slice one short.
SliceShort(seq, i, n) == SubSeq(seq, i + 1, Min(i + n - 1, Len(seq)))

\* video_ids[i : i + 50], i counted from 0.
Slice(seq, i, n) == SubSeq(seq, i + 1, Min(i + n, Len(seq)))

\* ------------------------------------------------------------- local store
required_columns ==
    << "id", "title", "video_url", "thumbnail_url", "published_at",
       "view_count", "like_count", "comment_count", "transcript" >>

IntColumns == {"view_count", "like_count", "comment_count"}

SeqToSet(seq) == {seq[n] : n \in 1..Len(seq)}

\* SQL NULL in a column of the videos table.
NullOf(col) == IF col \in IntColumns THEN NoneInt ELSE NoneVal

NoTable == [exists |-> FALSE, columns |-> <<>>, rows |-> <<>>]

\* CREATE TABLE videos (id TEXT PRIMARY KEY, ...): empty, nine columns.
NewTable == [exists |-> TRUE, columns |-> required_columns, rows |-> <<>>]

RowIds(rows) == [n \in 1..Len(rows) |-> rows[n].id]

SelectOthers(rows, id) == SelectSeq(rows, LAMBDA r : r.id # id)

\* INSERT OR IGNORE: the row already stored for the key is kept.
InsertOrIgnore(table, row) ==
    IF \E n \in 1..Len(table.rows) : table.rows[n].id = row.id
    THEN table
    ELSE [table EXCEPT !.rows = Append(table.rows, row)]

\* INSERT OR REPLACE INTO videos (...nine columns...) VALUES (...): the row
\* holding the same primary key is deleted, then the new row is inserted.
InsertOrReplace(table, row) ==
    [table EXCEPT !.rows = Append(SelectOthers(table.rows, row.id), row)]

\* The positional arguments of Database.insert_video, by column.
insert_video(table, video_id, title, video_url, thumbnail_url, published_at, view_count, like_count, comment_count, transcript) ==
    InsertOrReplace(table,
        [ id |-> video_id, title |-> title, video_url |-> video_url,
          thumbnail_url |-> thumbnail_url, published_at |-> published_at,
          view_count |-> view_count, like_count |-> like_count,
          comment_count |-> comment_count, transcript |-> transcript ])

\* The call both paths of main.py make for one video_data dictionary.
InsertVideoData(table, video_data) ==
    insert_video(table, video_data.id, video_data.title, video_data.video_url,
                 video_data.thumbnail_url, video_data.published_at,
                 video_data.view_count, video_data.like_count,
                 video_data.comment_count, video_data.transcript)

\* [col for col in columns if col in required_columns]
CommonColumns(columns) ==
    SelectSeq(columns, LAMBDA c : c \in SeqToSet(required_columns))

HasDuplicates(seq) == \E a, b \in 1..Len(seq) : a # b /\ seq[a] = seq[b]

\* INSERT INTO videos (common) SELECT common FROM videos_old: every old row,
\* its common columns kept and the others NULL.  The statement fails as a
\* whole (and the except clause only warns) when two old rows share an id.
MigratedRows(old) ==
    LET common == SeqToSet(CommonColumns(old.columns))
        project(r) == [c \in SeqToSet(required_columns) |->
                          IF c \in common THEN r[c] ELSE NullOf(c)]
    IN IF common = {} THEN <<>>
       ELSE IF "id" \in common /\ HasDuplicates(RowIds(old.rows)) THEN <<>>
       ELSE [n \in 1..Len(old.rows) |-> project(old.rows[n])]

\* if columns != required_columns: the lists compared, order included.
SchemaOutdatedOrdered(columns) == columns # required_columns

\* if set(columns) != set(required_columns)
SchemaOutdated(columns) == SeqToSet(columns) # SeqToSet(required_columns)

\* Database.setup_table
setup_table(table) ==
    IF table.exists
    THEN IF SchemaOutdated(table.columns)
         THEN [exists |-> TRUE, columns |-> required_columns,
               rows |-> MigratedRows(table)]
         ELSE table
    ELSE NewTable

\* ------------------------------------------------------------- spreadsheet
headers ==
    << "Video ID", "Title", "Video URL", "Thumbnail URL", "Published Date",
       "View Count", "Like Count", "Comment Count", "Transcript" >>

\* row_data of batch_insert_videos
RowData(video_data) ==
    << video_data.id, video_data.title, video_data.video_url,
       video_data.thumbnail_url, video_data.published_at, video_data.view_count,
       video_data.like_count, video_data.comment_count, video_data.transcript >>

\* sheet.col_values(1)
ColValues1(sh) == [n \in 1..Len(sh) |-> sh[n][1]]

\* sheet.col_values(1)[1:]
ExistingIds(sh) == IF Len(sh) = 0 THEN <<>> ELSE Tail(ColValues1(sh))

\* existing_ids.index(x), counted from 0
IndexOf(seq, x) == (CHOOSE n \in 1..Len(seq) : seq[n] = x /\ \A m \in 1..(n - 1) : seq[m] # x) - 1

InSeq(seq, x) == \E n \in 1..Len(seq) : seq[n] = x

\* rows_to_append: the rows of the records whose id is not in existing_ids.
RECURSIVE RowsToAppend(_, _)
RowsToAppend(existing_ids, video_data_list) ==
    IF Len(video_data_list) = 0 THEN <<>>
    ELSE LET v == Head(video_data_list)
             rest == RowsToAppend(existing_ids, Tail(video_data_list))
         IN IF InSeq(existing_ids, v.id) THEN rest ELSE <<RowData(v)>> \o rest

\* rows_to_update: (row_num, row_data) of the records whose id is in existing_ids.
RECURSIVE RowsToUpdate(_, _)
RowsToUpdate(existing_ids, video_data_list) ==
    IF Len(video_data_list) = 0 THEN <<>>
    ELSE LET v == Head(video_data_list)
             rest == RowsToUpdate(existing_ids, Tail(video_data_list))
         IN IF InSeq(existing_ids, v.id)
            THEN << [op |-> "update", row_num |-> IndexOf(existing_ids, v.id) + 2,
                     rows |-> <<RowData(v)>>] >> \o rest
            ELSE rest

\* The updates issued first, the append after them.
BatchWritesUpdatesFirst(existing_ids, video_data_list) ==
    LET app == RowsToAppend(existing_ids, video_data_list) IN
    RowsToUpdate(existing_ids, video_data_list)
    \o (IF Len(app) > 0 THEN << [op |-> "append_rows", row_num |-> 0, rows |-> app] >> ELSE <<>>)

\* The write calls of one batch_insert_videos, in the order they are issued.
BatchWrites(existing_ids, video_data_list) ==
    LET app == RowsToAppend(existing_ids, video_data_list) IN
    (IF Len(app) > 0 THEN << [op |-> "append_rows", row_num |-> 0, rows |-> app] >> ELSE <<>>)
    \o RowsToUpdate(existing_ids, video_data_list)

\* sheet.update("A{n}:I{n}", [row]): row n is overwritten (blank rows fill a gap).
UpdateRow(sh, n, row) ==
    [m \in 1..(IF n > Len(sh) THEN n ELSE Len(sh)) |->
        IF m = n THEN row ELSE IF m <= Len(sh) THEN sh[m] ELSE <<"">>]

\* One write call applied to the sheet.
ApplyWrite(sh, w) ==
    IF w.op = "append_rows" THEN sh \o w.rows ELSE UpdateRow(sh, w.row_num, w.rows[1])

\* The first n write calls applied in order.
RECURSIVE ApplyWrites(_, _, _)
ApplyWrites(sh, writes, n) ==
    IF n = 0 THEN sh
    ELSE ApplyWrite(ApplyWrites(sh, writes, n - 1), writes[n])

\* ------------------------------------------------------------------- state
VARIABLES
    pc,               \* position of the run
    path,             \* "none", "video" or "channel": the branch main took
    channel_input,    \* main's channel_input
    skip_transcripts, \* args.no_transcripts
    no_sheets,        \* args.no_sheets
    video_id,         \* main's video_id
    channel_id,       \* main's channel_id
    sheets_manager,   \* "unset", "manager" or "none" (None)
    sheets_enabled,   \* main's sheets_enabled
    sheet,            \* the worksheet: its rows, row 1 first
    sheet_calls,      \* every call made on the spreadsheet provider, in order
    sheet_errors,     \* "[ERROR] Failed to batch insert videos" lines printed
    videos,           \* the videos table as the open connection sees it
    durable,          \* the videos table as committed to the store file
    video_ids,        \* the identifiers being enumerated, then batched
    next_page_token,  \* get_all_video_ids_from_playlist's token (0: None)
    pages,            \* the provider's pages of the uploads playlist
    page_calls,       \* the pageToken of every playlistItems.list call
    i,                \* fetch_and_store_video_data's loop index
    batch_ids,        \* the identifiers of the current get_video_statistics call
    items,            \* response["items"] still to be turned into records
    video_data,       \* get_video_statistics's list, while it is built
    video_data_list,  \* the list get_video_statistics returned
    k,                \* records of video_data_list already inserted
    api_calls,        \* the identifier list of every videos.list call
    exit_code,        \* the process exit code (-1 while running)
    outcome,          \* why the run ended ("running" until then)
    err_at,           \* the step an escaping exception came from
    interrupts,       \* user interrupts delivered so far
    insert_calls,     \* the arguments of every insert_video call, in order
    tr_attempt,       \* the lookup get_video_transcript is at (1..4)
    tr_found,         \* the lookup that returned a transcript (0: none yet)
    tr_last           \* the video and ending of the latest resolver call

runVars == <<path, channel_input, skip_transcripts, no_sheets, video_id, channel_id>>
mgrVars == <<sheets_manager, sheets_enabled>>
sheetVars == <<sheet, sheet_calls, sheet_errors>>
dbVars == <<videos, durable, insert_calls>>
listVars == <<video_ids, next_page_token, pages, page_calls>>
loopVars == <<i, batch_ids, items, video_data, video_data_list, k, api_calls>>
endVars == <<exit_code, outcome, err_at>>
intVars == <<interrupts>>
trVars == <<tr_attempt, tr_found, tr_last>>
storeRest == <<durable, insert_calls>>

vars == <<pc, runVars, mgrVars, sheetVars, dbVars, listVars, loopVars, endVars, intVars, trVars>>

\* ------------------------------------------------------------ environment
TheVideo == "dQw4w9WgXcQ"
TheChannel == "UCPix8N6PMRI4KzgyjuZeF0g"

\* What the user may pass as args.channel ("" when omitted).
VideoInputs ==
    { TheVideo,
      "UCabcdefghi",
      "https://www.youtube.com/watch?v=" \o TheVideo,
      "https://youtu.be/" \o TheVideo,
      "https://www.youtube.com/embed/" \o TheVideo,
      "https://www.youtube.com/v/" \o TheVideo,
      "https://www.youtube.com/@somehandle?feature=youtu.be/" \o TheVideo }

ChannelInputs ==
    { TheChannel,
      "https://www.youtube.com/channel/" \o TheChannel,
      "https://www.youtube.com/@somehandle",
      "https://youtube.com/c/channelname",
      "https://www.youtube.com/user/username",
      "somehandle",
      "https://www.youtube.com/channel/UCshort",
      "UCnotachannelid" }

Inputs == VideoInputs \cup ChannelInputs \cup {""}

\* What the user may type at the prompt.
TypedInputs == {"", "  ", " " \o TheVideo \o "\n", "somehandle "}

\* A row an earlier run left behind for identifier id.
OldRecord(id) ==
    [ id |-> id, title |-> "Old title", video_url |-> VideoUrl(id),
      thumbnail_url |-> NoneVal, published_at |-> "2020-01-01T00:00:00Z",
      view_count |-> SomeInt(1), like_count |-> SomeInt(1),
      comment_count |-> SomeInt(1), transcript |-> "old words" ]

\* The store file when the run starts.
StoreWorlds ==
    { NoTable,
      [exists |-> TRUE, columns |-> required_columns,
       rows |-> <<OldRecord(TheVideo), OldRecord(VidOf(1))>>] }

\* The worksheet when the run starts.
SheetWorlds ==
    { <<>>,
      <<headers, RowData(OldRecord(TheVideo)), RowData(OldRecord(VidOf(1)))>> }

\* The uploads playlist as the provider pages it.
\* The identifiers of the videos a..b of the playlist, in order.
VidRange(a, b) == [n \in 1..(b - a + 1) |-> VidOf(a + n - 1)]

PlaylistWorlds ==
    { <<VidRange(1, n)>> : n \in 0..MaxPlaylist }
    \cup { <<VidRange(1, n), VidRange(n + 1, MaxPlaylist)>> : n \in 1..MaxPlaylist }

\* --------------------------------------------------------- exception model
\* The clauses an exception raised inside a step passes on its way out.
\* "Exception" stands for any error, "KeyboardInterrupt" for a user interrupt.
\* A bare `except:` (the lookups of get_video_transcript) catches both.
BareExceptCatches(exc) == TRUE

\* A clause naming one exception class the raised error does not belong to.
ExceptCatchesNothing(exc) == FALSE

\* `except Exception` catches errors, not KeyboardInterrupt.
ExceptExceptionCatches(exc) == exc = "Exception"

\* The handlers of the __main__ block: the exit code for an escaping exception.
TopLevelExitCode(exc) == IF exc = "KeyboardInterrupt" THEN 0 ELSE 1

CanInterrupt == interrupts < MaxInterrupts

\* The process ends: the connection is closed, uncommitted rows are gone.
Terminate(code, why, at) ==
    /\ pc' = "exited"
    /\ exit_code' = code
    /\ outcome' = why
    /\ err_at' = at
    /\ videos' = durable

\* An exception escapes main and reaches the __main__ handlers.
Escape(exc, at) ==
    Terminate(TopLevelExitCode(exc),
              IF exc = "KeyboardInterrupt" THEN "interrupt" ELSE "error", at)

\* A user interrupt at step `at` that no inner handler catches.
Interrupted(at) ==
    /\ CanInterrupt
    /\ interrupts' = interrupts + 1
    /\ Escape("KeyboardInterrupt", at)

\* An error at step `at` that no inner handler catches.
Failed(at) ==
    /\ UNCHANGED intVars
    /\ Escape("Exception", at)

\* sys.exit(code) inside main: SystemExit passes both __main__ handlers.
SysExit(code, why) ==
    /\ UNCHANGED intVars
    /\ Terminate(code, why, "")

\* main returns: the with block closes the store, the process ends with 0.
Success == SysExit(0, "success")

\* The run goes on at step next.
Goto(next) ==
    /\ pc' = next
    /\ UNCHANGED endVars

\* ------------------------------------------------------------ main: input
\* The channel check first, the video check only when no channel pattern
\* matched.
ClassifyChannelFirst(ci) ==
    /\ channel_input' = ci
    /\ LET v == extract_video_id(ci) IN
       IF v # NoneVal /\ v # "" /\ extract_channel_id(ci) = ci
       THEN /\ video_id' = v
            /\ channel_id' = channel_id
            /\ path' = "video"
       ELSE /\ video_id' = NoneVal
            /\ channel_id' = extract_channel_id(ci)
            /\ path' = "channel"
    /\ Goto("init_api")
    /\ UNCHANGED <<skip_transcripts, no_sheets, videos, intVars>>

\* main 294-333: the video check first, the channel check only after it.
Classify(ci) ==
    /\ channel_input' = ci
    /\ LET v == extract_video_id(ci) IN
       IF v # NoneVal /\ v # ""
       THEN /\ video_id' = v
            /\ channel_id' = channel_id
            /\ path' = "video"
       ELSE /\ video_id' = v
            /\ channel_id' = extract_channel_id(ci)
            /\ path' = "channel"
    /\ Goto("init_api")
    /\ UNCHANGED <<skip_transcripts, no_sheets, videos, intVars>>

\* main 274-296 and 333: the prompt when no argument was given, then the
\* classification.
Start ==
    /\ pc = "start"
    /\ \/ /\ channel_input # ""
          /\ Classify(channel_input)
       \/ /\ channel_input = ""
          /\ \E typed \in TypedInputs :
                IF Strip(typed) = ""
                THEN SysExit(1, "no_input") /\ UNCHANGED runVars
                ELSE Classify(Strip(typed))
       \/ /\ channel_input = ""
          /\ Interrupted("prompt")
          /\ UNCHANGED runVars
    /\ UNCHANGED <<mgrVars, sheetVars, storeRest, listVars, loopVars, trVars>>

\* if not channel_id.startswith("UC")
NeedsLookup(cid) == ~StartsWith(cid, "UC")

\* main 303 and 336: YouTubeAPI(...) builds the client.
InitApi ==
    /\ pc = "init_api"
    /\ \/ /\ Goto(IF path = "channel" /\ NeedsLookup(channel_id) THEN "lookup" ELSE "auth")
          /\ UNCHANGED <<videos, intVars>>
       \/ Failed("init_api")
       \/ Interrupted("init_api")
    /\ UNCHANGED <<runVars, mgrVars, sheetVars, storeRest, listVars, loopVars, trVars>>

\* main 339-346 with get_channel_id_from_handle: a found channel, no item,
\* an error (caught: None) or an interrupt.
Lookup ==
    /\ pc = "lookup"
    /\ \/ /\ channel_id' = TheChannel
          /\ Goto("auth")
          /\ UNCHANGED <<videos, intVars>>
       \/ /\ SysExit(1, "handle_not_found")
          /\ channel_id' = NoneVal
       \/ /\ IF ExceptExceptionCatches("Exception")
             THEN SysExit(1, "handle_not_found")
             ELSE Failed("lookup")
          /\ channel_id' = NoneVal
       \/ /\ Interrupted("lookup")
          /\ UNCHANGED channel_id
    /\ UNCHANGED <<path, channel_input, skip_transcripts, no_sheets, video_id>>
    /\ UNCHANGED <<mgrVars, sheetVars, storeRest, listVars, loopVars, trVars>>

\* ------------------------------------------------------ main: spreadsheet
Call(op, row_num, rows) == [op |-> op, row_num |-> row_num, rows |-> rows]

\* main 306-316 and 351-361 with GoogleSheetsManager.authenticate: the
\* manager is built and authenticated whatever args.no_sheets says; a failed
\* authentication returns False and main drops the manager.
Authenticate ==
    /\ pc = "auth"
    /\ sheet_calls' = Append(sheet_calls, Call("authenticate", 0, <<>>))
    /\ \/ /\ sheets_enabled' = TRUE
          /\ sheets_manager' = "manager"
          /\ Goto("headers")
          /\ UNCHANGED <<videos, intVars>>
       \/ /\ IF ExceptExceptionCatches("Exception")
             THEN /\ sheets_enabled' = FALSE
                  /\ sheets_manager' = "none"
                  /\ Goto("db_setup")
                  /\ UNCHANGED <<videos, intVars>>
             ELSE Failed("auth") /\ UNCHANGED mgrVars
       \/ /\ Interrupted("auth")
          /\ UNCHANGED mgrVars
    /\ UNCHANGED <<runVars, sheet, sheet_errors, storeRest, listVars, loopVars, trVars>>

\* not existing_headers or existing_headers[0] != "Video ID"
HeadersMissing(sh) == IF Len(sh) = 0 THEN TRUE ELSE sh[1][1] # "Video ID"

\* sheet.update("A1:I1", [headers])
WriteHeaders(sh) == UpdateRow(sh, 1, headers)

\* GoogleSheetsManager.setup_headers (main 311 and 356): errors are logged.
SetupHeaders ==
    /\ pc = "headers"
    /\ \/ \* row_values(1) and, when needed, the header write succeed
          /\ sheet' = IF HeadersMissing(sheet) THEN WriteHeaders(sheet) ELSE sheet
          /\ sheet_calls' = sheet_calls \o <<Call("row_values", 1, <<>>)>>
                \o (IF HeadersMissing(sheet) THEN <<Call("update", 1, <<headers>>)>> ELSE <<>>)
          /\ Goto("db_setup")
          /\ UNCHANGED <<videos, intVars>>
       \/ \* row_values(1) raises
          /\ sheet_calls' = Append(sheet_calls, Call("row_values", 1, <<>>))
          /\ UNCHANGED sheet
          /\ \/ IF ExceptExceptionCatches("Exception")
                THEN Goto("db_setup") /\ UNCHANGED <<videos, intVars>>
                ELSE Failed("headers")
             \/ Interrupted("headers")
       \/ \* the header write raises
          /\ HeadersMissing(sheet)
          /\ sheet_calls' = sheet_calls \o
                <<Call("row_values", 1, <<>>), Call("update", 1, <<headers>>)>>
          /\ UNCHANGED sheet
          /\ \/ IF ExceptExceptionCatches("Exception")
                THEN Goto("db_setup") /\ UNCHANGED <<videos, intVars>>
                ELSE Failed("headers")
             \/ Interrupted("headers")
    /\ UNCHANGED <<runVars, mgrVars, sheet_errors, storeRest, listVars, loopVars, trVars>>

\* ------------------------------------------------------- main: local store
\* main 319-321 and 364-366: Database.__enter__ connects, setup_table
\* creates or migrates the table and commits.
DbSetup ==
    /\ pc = "db_setup"
    /\ \/ /\ videos' = setup_table(videos)
          /\ durable' = setup_table(videos)
          /\ batch_ids' = IF path = "video" THEN <<video_id>> ELSE batch_ids
          /\ pc' = IF path = "video" THEN "gs_call" ELSE "uploads"
          /\ UNCHANGED <<endVars, intVars>>
       \/ Failed("db_setup") /\ UNCHANGED <<durable, batch_ids>>
       \/ Interrupted("db_setup") /\ UNCHANGED <<durable, batch_ids>>
    /\ UNCHANGED <<runVars, mgrVars, sheetVars, insert_calls, listVars, trVars>>
    /\ UNCHANGED <<i, items, video_data, video_data_list, k, api_calls>>

\* ------------------------------------------------- main: channel listing
\* YouTubeAPI.get_uploads_playlist_id (main 369): response["items"][0] is
\* read without a check, so a response with no item raises.
Uploads ==
    /\ pc = "uploads"
    /\ \/ /\ \E pl \in PlaylistWorlds : pages' = pl
          /\ Goto("playlist")
          /\ UNCHANGED <<videos, intVars>>
       \/ Failed("uploads") /\ UNCHANGED pages
       \/ Interrupted("uploads") /\ UNCHANGED pages
    /\ UNCHANGED <<video_ids, next_page_token, page_calls>>
    /\ UNCHANGED <<runVars, mgrVars, sheetVars, storeRest, loopVars, trVars>>

\* response.get("nextPageToken") of the page requested with token: page
\* token + 1 is followed by token + 1 unless it is the last page.
NextTokenOf(pgs, token) == IF token + 1 < Len(pgs) THEN token + 1 ELSE 0

\* The list is assigned each page instead of extended by it.
PlaylistPageResets ==
    /\ pc = "playlist"
    /\ page_calls' = Append(page_calls, next_page_token)
    /\ \/ /\ video_ids' = pages[next_page_token + 1]
          /\ next_page_token' = NextTokenOf(pages, next_page_token)
          /\ Goto(IF NextTokenOf(pages, next_page_token) = 0 THEN "fetch_loop" ELSE "playlist")
          /\ UNCHANGED <<videos, intVars>>
       \/ Failed("playlist") /\ UNCHANGED <<video_ids, next_page_token>>
       \/ Interrupted("playlist") /\ UNCHANGED <<video_ids, next_page_token>>
    /\ UNCHANGED pages
    /\ UNCHANGED <<runVars, mgrVars, sheetVars, storeRest, loopVars, trVars>>

\* YouTubeAPI.get_all_video_ids_from_playlist (main 372): one pass of the
\* while loop, one playlistItems.list call.
PlaylistPage ==
    /\ pc = "playlist"
    /\ page_calls' = Append(page_calls, next_page_token)
    /\ \/ /\ video_ids' = video_ids \o pages[next_page_token + 1]
          /\ next_page_token' = NextTokenOf(pages, next_page_token)
          /\ Goto(IF NextTokenOf(pages, next_page_token) = 0 THEN "fetch_loop" ELSE "playlist")
          /\ UNCHANGED <<videos, intVars>>
       \/ Failed("playlist") /\ UNCHANGED <<video_ids, next_page_token>>
       \/ Interrupted("playlist") /\ UNCHANGED <<video_ids, next_page_token>>
    /\ UNCHANGED pages
    /\ UNCHANGED <<runVars, mgrVars, sheetVars, storeRest, loopVars, trVars>>

\* --------------------------------------------------------- the batch loop
\* fetch_and_store_video_data 219-220: the next slice of at most 50
\* identifiers, or the end of the loop and of main.
LoopHead ==
    /\ pc = "fetch_loop"
    /\ IF i < Len(video_ids)
       THEN /\ batch_ids' = Slice(video_ids, i, BatchSize)
            /\ Goto("gs_call")
            /\ UNCHANGED <<videos, intVars>>
       ELSE /\ Success
            /\ UNCHANGED batch_ids
    /\ UNCHANGED <<i, items, video_data, video_data_list, k, api_calls>>
    /\ UNCHANGED <<runVars, mgrVars, sheetVars, storeRest, listVars, trVars>>

\* The identifier lists the provider may answer a request with: the videos
\* it has no item for (private, deleted) are left out silently.
Selections(ids) ==
    { SelectSeq(ids, LAMBDA id : id \in S) : S \in SUBSET {ids[1], ids[Len(ids)]} }

Responses(ids) ==
    { [n \in 1..Len(sel) |-> ItemOf(sel[n], prof)] :
        sel \in Selections(ids), prof \in Profiles }

\* get_video_statistics 76-82: one videos.list call for the whole list.
GsCall ==
    /\ pc = "gs_call"
    /\ api_calls' = Append(api_calls, batch_ids)
    /\ \/ /\ \E resp \in Responses(batch_ids) : items' = resp
          /\ video_data' = <<>>
          /\ Goto("gs_item")
          /\ UNCHANGED <<videos, intVars>>
       \/ Failed("gs_call") /\ UNCHANGED <<items, video_data>>
       \/ Interrupted("gs_call") /\ UNCHANGED <<items, video_data>>
    /\ UNCHANGED <<i, batch_ids, video_data_list, k>>
    /\ UNCHANGED <<runVars, mgrVars, sheetVars, storeRest, listVars, trVars>>

\* video_data.append(video_info) for the item at the head of items; the
\* resolver's locals are gone.
AppendRecord(transcript_text, how) ==
    /\ video_data' = Append(video_data, VideoInfo(Head(items), transcript_text))
    /\ items' = Tail(items)
    /\ tr_last' = [id |-> Head(items).id, how |-> how]
    /\ tr_attempt' = 0
    /\ tr_found' = 0
    /\ Goto("gs_item")
    /\ UNCHANGED videos

NoResolverCall == [id |-> NoneVal, how |-> "none"]

\* get_video_statistics 83-122: the next item, or the return to the caller.
GsItem ==
    /\ pc = "gs_item"
    /\ IF Len(items) = 0
       THEN /\ video_data_list' = video_data
            /\ k' = 0
            /\ tr_last' = NoResolverCall
            /\ Goto(IF path = "video" THEN "psv_store"
                    ELSE IF Len(video_data) = 0 THEN "commit" ELSE "insert")
            /\ UNCHANGED <<items, video_data, videos, tr_attempt, tr_found>>
       ELSE IF skip_transcripts
            THEN /\ AppendRecord(NoneVal, "skipped")
                 /\ UNCHANGED <<video_data_list, k>>
            ELSE /\ Goto("tr_list")
                 /\ UNCHANGED <<items, video_data, videos, video_data_list, k, trVars>>
    /\ UNCHANGED <<i, batch_ids, api_calls, intVars>>
    /\ UNCHANGED <<runVars, mgrVars, sheetVars, storeRest, listVars>>

\* ---------------------------------------------------- transcript resolver
\* An exception reaches the outer `except Exception` of get_video_transcript
\* (165-169): an error makes it return None, anything else escapes.
TrRaise(exc, at) ==
    IF ExceptExceptionCatches(exc)
    THEN AppendRecord(NoneVal, at)
    ELSE Escape(exc, at) /\ UNCHANGED <<items, video_data, trVars>>

\* get_video_transcript 135-140: YouTubeTranscriptApi().list(video_id).
TrList ==
    /\ pc = "tr_list"
    /\ \/ /\ tr_attempt' = 1
          /\ tr_found' = 0
          /\ Goto("tr_find")
          /\ UNCHANGED <<items, video_data, tr_last, videos, intVars>>
       \/ /\ TrRaise("Exception", "tr_list")
          /\ UNCHANGED intVars
       \/ /\ CanInterrupt
          /\ interrupts' = interrupts + 1
          /\ TrRaise("KeyboardInterrupt", "tr_list")
    /\ UNCHANGED <<i, batch_ids, video_data_list, k, api_calls>>
    /\ UNCHANGED <<runVars, mgrVars, sheetVars, storeRest, listVars>>

\* The lookups 1..3 sit in a try whose bare except starts the next lookup;
\* lookup 4 sits in the last except clause, so what it raises goes out.
LookupRaises(exc, at) ==
    IF tr_attempt < 4 /\ BareExceptCatches(exc)
    THEN /\ tr_attempt' = tr_attempt + 1
         /\ Goto("tr_find")
         /\ UNCHANGED <<items, video_data, tr_last, tr_found, videos>>
    ELSE TrRaise(exc, at)

\* get_video_transcript 142-155: lookup tr_attempt of the fallback chain.
TrFind ==
    /\ pc = "tr_find"
    /\ \/ /\ tr_found' = tr_attempt
          /\ Goto("tr_fetch")
          /\ UNCHANGED <<items, video_data, tr_last, tr_attempt, videos, intVars>>
       \/ /\ LookupRaises("Exception", "tr_find")
          /\ UNCHANGED intVars
       \/ /\ CanInterrupt
          /\ interrupts' = interrupts + 1
          /\ LookupRaises("KeyboardInterrupt", "tr_find")
    /\ UNCHANGED <<i, batch_ids, video_data_list, k, api_calls>>
    /\ UNCHANGED <<runVars, mgrVars, sheetVars, storeRest, listVars>>

\* get_video_transcript 157-163: fetch the segments, join their texts.
TrFetch ==
    /\ pc = "tr_fetch"
    /\ \/ /\ \E segments \in SegmentLists :
                AppendRecord(TranscriptResult(segments),
                             IF TranscriptResult(segments) = NoneVal THEN "blank" ELSE "ok")
          /\ UNCHANGED intVars
       \/ /\ TrRaise("Exception", "tr_fetch")
          /\ UNCHANGED intVars
       \/ /\ TrRaise("Exception", "tr_join")
          /\ UNCHANGED intVars
       \/ /\ CanInterrupt
          /\ interrupts' = interrupts + 1
          /\ TrRaise("KeyboardInterrupt", "tr_fetch")
    /\ UNCHANGED <<i, batch_ids, video_data_list, k, api_calls>>
    /\ UNCHANGED <<runVars, mgrVars, sheetVars, storeRest, listVars>>

\* ------------------------------------------------------ store and sheet
\* One insert_video call of main for the record v, with its history.
InsertCall(v) ==
    /\ videos' = InsertVideoData(videos, v)
    /\ insert_calls' = Append(insert_calls, v)

ReadCall == Call("col_values", 1, <<>>)

\* The spreadsheet calls of one batch_insert_videos in which call number f
\* raises (f = 0: none does; f = 1: the column read; f = n + 1: write n).
AttemptedCalls(writes, f) ==
    <<ReadCall>> \o (IF f = 0 THEN writes ELSE SubSeq(writes, 1, f - 1))

\* The writes that took effect before call number f raised.
AppliedCount(writes, f) ==
    IF f = 0 THEN Len(writes) ELSE IF f = 1 THEN 0 ELSE f - 2

\* GoogleSheetsManager.batch_insert_videos 137-176 on the sheet: existing_ids
\* is read once, the append is issued first, then one update per known id.
batch_insert_videos(list, f) ==
    LET writes == BatchWrites(ExistingIds(sheet), list) IN
    /\ f \in 0..(Len(writes) + 1)
    /\ sheet' = ApplyWrites(sheet, writes, AppliedCount(writes, f))
    /\ sheet_calls' = sheet_calls \o AttemptedCalls(writes, f)

\* The number of spreadsheet calls one batch_insert_videos of list makes.
BatchCallCount(list) == Len(BatchWrites(ExistingIds(sheet), list)) + 1

\* f"{count:,}" raises TypeError for None (process_single_video 162-166).
CanFormatThousands(count) == count # NoneInt

\* process_single_video 152-190: nothing fetched, or print, insert, commit.
PsvStore ==
    /\ pc = "psv_store"
    /\ \/ /\ Len(video_data_list) = 0
          /\ SysExit(0, "video_not_found")
          /\ UNCHANGED storeRest
       \/ /\ Len(video_data_list) > 0
          /\ LET v == video_data_list[1] IN
             IF /\ CanFormatThousands(v.view_count)
                /\ CanFormatThousands(v.like_count)
                /\ CanFormatThousands(v.comment_count)
             THEN /\ InsertCall(v)
                  /\ durable' = InsertVideoData(videos, v)
                  /\ Goto("psv_sheet")
                  /\ UNCHANGED intVars
             ELSE Failed("psv_print") /\ UNCHANGED storeRest
       \/ /\ Len(video_data_list) > 0
          /\ Interrupted("psv_store")
          /\ UNCHANGED storeRest
    /\ UNCHANGED <<runVars, mgrVars, sheetVars, listVars, loopVars, trVars>>

\* print(f"[ERROR] Failed to batch insert videos: {e}") (179), n times.
Logged(n) == sheet_errors' = sheet_errors + n

\* The except clause logs the error and raises it again.
SheetCallReraises(list, at, next, stop) ==
    \/ /\ batch_insert_videos(list, 0)
       /\ Logged(0)
       /\ next
    \/ /\ \E f \in 1..BatchCallCount(list) : batch_insert_videos(list, f)
       /\ Logged(1) /\ Failed(at) /\ stop
    \/ /\ \E f \in 1..BatchCallCount(list) : batch_insert_videos(list, f)
       /\ Logged(0)
       /\ Interrupted(at)
       /\ stop

\* A batch_insert_videos call from main: an error in it is caught and logged
\* (178-179), an interrupt is not.
SheetCall(list, at, next, stop) ==
    \/ /\ batch_insert_videos(list, 0)
       /\ Logged(0)
       /\ next
    \/ /\ \E f \in 1..BatchCallCount(list) : batch_insert_videos(list, f)
       /\ IF ExceptExceptionCatches("Exception")
          THEN Logged(1) /\ next
          ELSE Logged(0) /\ Failed(at) /\ stop
    \/ /\ \E f \in 1..BatchCallCount(list) : batch_insert_videos(list, f)
       /\ Logged(0)
       /\ Interrupted(at)
       /\ stop

\* process_single_video 192-197, then main returns.
PsvSheet ==
    /\ pc = "psv_sheet"
    /\ IF sheets_manager = "manager"
       THEN SheetCall(video_data_list, "psv_sheet", Success, TRUE)
       ELSE Success /\ UNCHANGED sheetVars
    /\ UNCHANGED <<runVars, mgrVars, storeRest, listVars, loopVars, trVars>>

\* The connection in autocommit mode: every insert is durable at once.
InsertStepAutocommit ==
    /\ pc = "insert"
    /\ k < Len(video_data_list)
    /\ \/ /\ InsertCall(video_data_list[k + 1])
          /\ durable' = InsertVideoData(videos, video_data_list[k + 1])
          /\ k' = k + 1
          /\ Goto(IF k + 1 = Len(video_data_list) THEN "commit" ELSE "insert")
          /\ UNCHANGED intVars
       \/ /\ Failed("insert")
          /\ UNCHANGED <<storeRest, k>>
       \/ /\ Interrupted("insert")
          /\ UNCHANGED <<storeRest, k>>
    /\ UNCHANGED <<i, batch_ids, items, video_data, video_data_list, api_calls>>
    /\ UNCHANGED <<runVars, mgrVars, sheetVars, listVars, trVars>>

\* fetch_and_store_video_data 225-256: one pass of the for loop over the
\* records, one insert_video call (not committed yet).
InsertStep ==
    /\ pc = "insert"
    /\ k < Len(video_data_list)
    /\ \/ /\ InsertCall(video_data_list[k + 1])
          /\ k' = k + 1
          /\ Goto(IF k + 1 = Len(video_data_list) THEN "commit" ELSE "insert")
          /\ UNCHANGED <<durable, intVars>>
       \/ /\ Failed("insert")
          /\ UNCHANGED <<storeRest, k>>
       \/ /\ Interrupted("insert")
          /\ UNCHANGED <<storeRest, k>>
    /\ UNCHANGED <<i, batch_ids, items, video_data, video_data_list, api_calls>>
    /\ UNCHANGED <<runVars, mgrVars, sheetVars, listVars, trVars>>

\* The loop goes on without committing.
CommitNothing ==
    /\ pc = "commit"
    /\ Goto("sheet_batch")
    /\ UNCHANGED <<videos, durable, intVars, insert_calls>>
    /\ UNCHANGED <<runVars, mgrVars, sheetVars, listVars, loopVars, trVars>>

\* fetch_and_store_video_data 258 with Database.commit.
Commit ==
    /\ pc = "commit"
    /\ \/ /\ durable' = videos
          /\ Goto("sheet_batch")
          /\ UNCHANGED <<videos, intVars>>
       \/ /\ Interrupted("commit")
          /\ UNCHANGED durable
    /\ UNCHANGED insert_calls
    /\ UNCHANGED <<runVars, mgrVars, sheetVars, listVars, loopVars, trVars>>

\* The loop goes to its next slice.
NextBatch ==
    /\ i' = i + BatchSize
    /\ Goto("fetch_loop")
    /\ UNCHANGED <<videos, intVars>>

\* fetch_and_store_video_data 260-262, then the loop's step of 50.
SheetStep ==
    /\ pc = "sheet_batch"
    /\ IF sheets_manager = "manager"
       THEN SheetCall(video_data_list, "sheet_batch", NextBatch, UNCHANGED i)
       ELSE NextBatch /\ UNCHANGED sheetVars
    /\ UNCHANGED <<batch_ids, items, video_data, video_data_list, k, api_calls>>
    /\ UNCHANGED <<runVars, mgrVars, storeRest, listVars, trVars>>

\* ---------------------------------------------------------- specification
\* What every specification starts from apart from its inputs.
Idle ==
    /\ path = "none"
    /\ video_id = NoneVal
    /\ channel_id = NoneVal
    /\ sheets_enabled = FALSE
    /\ sheet_calls = <<>>
    /\ sheet_errors = 0
    /\ durable = videos
    /\ next_page_token = 0
    /\ pages = <<>>
    /\ page_calls = <<>>
    /\ i = 0
    /\ batch_ids = <<>>
    /\ items = <<>>
    /\ video_data = <<>>
    /\ video_data_list = <<>>
    /\ k = 0
    /\ api_calls = <<>>
    /\ exit_code = -1
    /\ outcome = "running"
    /\ err_at = ""
    /\ interrupts = 0
    /\ insert_calls = <<>>
    /\ tr_attempt = 0
    /\ tr_found = 0
    /\ tr_last = NoResolverCall

\* The state before main runs, whatever the command line, the store file
\* and the worksheet are.
Init ==
    /\ pc = "start"
    /\ channel_input \in Inputs
    /\ skip_transcripts \in BOOLEAN
    /\ no_sheets \in BOOLEAN
    /\ sheets_manager = "unset"
    /\ sheet \in SheetWorlds
    /\ videos \in StoreWorlds
    /\ video_ids = <<>>
    /\ Idle

Next ==
    \/ Start
    \/ InitApi
    \/ Lookup
    \/ Authenticate
    \/ SetupHeaders
    \/ DbSetup
    \/ Uploads
    \/ PlaylistPage
    \/ LoopHead
    \/ GsCall
    \/ GsItem
    \/ TrList
    \/ TrFind
    \/ TrFetch
    \/ PsvStore
    \/ PsvSheet
    \/ InsertStep
    \/ Commit
    \/ SheetStep

\* The whole run of main.py.
Spec == Init /\ [][Next]_vars

\* ------------------------------------------- the local store on its own
\* The records insert_video is called with: two identifiers, statistics and
\* transcript that differ between versions.
StoreRecords ==
    { VideoInfo(ItemOf(id, prof), t) :
        id \in {VidOf(1), VidOf(2)}, prof \in Profiles, t \in {NoneVal, "a b"} }
    \cup { OldRecord(VidOf(1)) }

InitStore ==
    /\ pc = "store"
    /\ channel_input = ""
    /\ skip_transcripts = FALSE
    /\ no_sheets = FALSE
    /\ sheets_manager = "unset"
    /\ sheet = <<>>
    /\ videos \in {NewTable, [NewTable EXCEPT !.rows = <<OldRecord(VidOf(1))>>]}
    /\ video_ids = <<>>
    /\ Idle

\* Database.insert_video called with any record.
StoreInsert ==
    /\ pc = "store"
    /\ Len(insert_calls) < MaxInserts
    /\ \E v \in StoreRecords : InsertCall(v)
    /\ UNCHANGED <<pc, durable, runVars, mgrVars, sheetVars, listVars, loopVars>>
    /\ UNCHANGED <<endVars, intVars, trVars>>

\* Database.commit
StoreCommit ==
    /\ pc = "store"
    /\ durable' = videos
    /\ UNCHANGED <<pc, videos, insert_calls, runVars, mgrVars, sheetVars, listVars>>
    /\ UNCHANGED <<loopVars, endVars, intVars, trVars>>

NextStore ==
    \/ StoreInsert
    \/ StoreCommit

\* Any sequence of insert_video and commit calls on an open store.
SpecStore == InitStore /\ [][NextStore]_vars

\* --------------------------------------------- the spreadsheet on its own
SheetRecords ==
    { VideoInfo(ItemOf(VidOf(1), [omit |-> {}, thumbs |-> ThumbKinds]), "a b"),
      VideoInfo(ItemOf(VidOf(1), [omit |-> {"likeCount"}, thumbs |-> {}]), NoneVal),
      VideoInfo(ItemOf(VidOf(2), [omit |-> {}, thumbs |-> ThumbKinds]), NoneVal) }

\* The batches batch_insert_videos is called with: up to two records.
Batches ==
    {<<>>} \cup { <<a>> : a \in SheetRecords }
           \cup { <<a, b>> : a \in SheetRecords, b \in SheetRecords }

\* Worksheets whose identifier column holds no identifier twice.
SheetStarts ==
    { <<>>,
      <<headers>>,
      <<headers, RowData(OldRecord(VidOf(1)))>>,
      <<headers, RowData(OldRecord(TheVideo)), RowData(OldRecord(VidOf(1)))>> }

InitSheet ==
    /\ pc = "sheet"
    /\ channel_input = ""
    /\ skip_transcripts = FALSE
    /\ no_sheets = FALSE
    /\ sheets_manager = "manager"
    /\ sheet \in SheetStarts
    /\ videos = NoTable
    /\ video_ids = <<>>
    /\ Idle

\* batch_insert_videos calls made so far: each reads the column once.
BatchesDone ==
    Cardinality({n \in 1..Len(sheet_calls) : sheet_calls[n].op = "col_values"})

\* GoogleSheetsManager.batch_insert_videos called with any batch; any of
\* its spreadsheet calls may raise, which the method catches and logs.
SheetBatchCall ==
    /\ pc = "sheet"
    /\ BatchesDone < MaxSheetBatches
    /\ \E list \in Batches :
          /\ video_data_list' = list
          /\ \E f \in 0..BatchCallCount(list) :
                /\ batch_insert_videos(list, f)
                /\ Logged(IF f = 0 THEN 0 ELSE 1)
    /\ UNCHANGED <<pc, runVars, mgrVars, dbVars, listVars, endVars, intVars, trVars>>
    /\ UNCHANGED <<i, batch_ids, items, video_data, k, api_calls>>

NextSheet == SheetBatchCall

\* Any sequence of batch_insert_videos calls on an authenticated manager.
SpecSheet == InitSheet /\ [][NextSheet]_vars

\* ------------------------------------------------ the batch loop on its own
\* fetch_and_store_video_data entered with a list of any length up to
\* MaxVideos, transcripts skipped and no spreadsheet manager.
InitChunk ==
    /\ pc = "fetch_loop"
    /\ channel_input = TheChannel
    /\ skip_transcripts = TRUE
    /\ no_sheets = FALSE
    /\ sheets_manager = "none"
    /\ sheet = <<>>
    /\ videos = NewTable
    /\ \E n \in 0..MaxVideos : video_ids = VidRange(1, n)
    /\ Idle

NextChunk ==
    \/ LoopHead
    \/ GsCall
    \/ GsItem
    \/ InsertStep
    \/ Commit
    \/ SheetStep

SpecChunk == InitChunk /\ [][NextChunk]_vars

\* ------------------------------------- the batch loop with the spreadsheet
\* The lengths of the list: none, one slice, a full slice, a full slice and
\* one more, three slices.
FetchSizes == {0, 1, BatchSize, BatchSize + 1, MaxFetch}

\* fetch_and_store_video_data entered with an authenticated manager, on a
\* store and a sheet that may hold a row of an earlier run.
InitFetch ==
    /\ pc = "fetch_loop"
    /\ channel_input = TheChannel
    /\ skip_transcripts = TRUE
    /\ no_sheets = FALSE
    /\ sheets_manager = "manager"
    /\ sheet \in {<<headers>>, <<headers, RowData(OldRecord(VidOf(1)))>>}
    /\ videos \in {NewTable, [NewTable EXCEPT !.rows = <<OldRecord(VidOf(1))>>]}
    /\ \E n \in FetchSizes : video_ids = VidRange(1, n)
    /\ Idle

NextFetch ==
    \/ LoopHead
    \/ GsCall
    \/ GsItem
    \/ InsertStep
    \/ Commit
    \/ SheetStep

SpecFetch == InitFetch /\ [][NextFetch]_vars

\* ------------------------------------------- the enumeration on its own
RECURSIVE SumTo(_, _)
SumTo(sizes, p) == IF p = 0 THEN 0 ELSE sizes[p] + SumTo(sizes, p - 1)

\* The pages of a playlist whose page p holds sizes[p] identifiers.
PagesOf(sizes) ==
    [p \in 1..Len(sizes) |-> VidRange(SumTo(sizes, p - 1) + 1, SumTo(sizes, p))]

\* The playlists the provider may serve: one to MaxPages pages, each of
\* zero to MaxPageLen identifiers, the last page carrying no token.
PageWorlds ==
    { PagesOf(sizes) : sizes \in UNION { [1..n -> 0..MaxPageLen] : n \in 1..MaxPages } }

\* get_all_video_ids_from_playlist entered: video_ids = [], no token.
InitPages ==
    /\ pc = "playlist"
    /\ path = "channel"
    /\ channel_input = TheChannel
    /\ channel_id = TheChannel
    /\ video_id = NoneVal
    /\ skip_transcripts = FALSE
    /\ no_sheets = FALSE
    /\ sheets_manager = "none"
    /\ sheets_enabled = FALSE
    /\ sheet = <<>>
    /\ sheet_calls = <<>>
    /\ sheet_errors = 0
    /\ videos = NewTable
    /\ durable = NewTable
    /\ insert_calls = <<>>
    /\ video_ids = <<>>
    /\ next_page_token = 0
    /\ pages \in PageWorlds
    /\ page_calls = <<>>
    /\ i = 0
    /\ batch_ids = <<>>
    /\ items = <<>>
    /\ video_data = <<>>
    /\ video_data_list = <<>>
    /\ k = 0
    /\ api_calls = <<>>
    /\ exit_code = -1
    /\ outcome = "running"
    /\ err_at = ""
    /\ interrupts = 0
    /\ tr_attempt = 0
    /\ tr_found = 0
    /\ tr_last = NoResolverCall

NextPages == PlaylistPage

\* The while loop runs on as long as it has not left: each pass is taken.
SpecPages == InitPages /\ [][NextPages]_vars /\ WF_vars(NextPages)

\* ---------------------------------------------- the schema check on its own
\* The nine columns in another order.
ReorderedColumns ==
    <<required_columns[2], required_columns[1]>> \o SubSeq(required_columns, 3, Len(required_columns))

\* The column lists PRAGMA table_info(videos) may return for a table an
\* earlier version or another tool left: the nine, the nine reordered, a
\* five-column table, the nine and one more, two lists without id.
SchemaColumns ==
    { required_columns,
      ReorderedColumns,
      <<"id", "title", "view_count", "like_count", "comment_count">>,
      required_columns \o <<"description">>,
      <<"title", "views">>,
      <<"name", "views">> }

\* The column lists of tables declared without PRIMARY KEY on id.
UnkeyedColumns == { <<"id", "title", "view_count", "like_count", "comment_count">> }

\* A row of a table with these columns.
OldRow(columns, id, ver) ==
    [c \in SeqToSet(columns) |->
        IF c = "id" THEN id
        ELSE IF c \in IntColumns THEN SomeInt(ver)
        ELSE c \o " " \o ToString(ver)]

RowLists(columns) ==
    { <<>>,
      <<OldRow(columns, TheVideo, 1)>>,
      <<OldRow(columns, TheVideo, 1), OldRow(columns, VidOf(1), 2)>> }
    \cup (IF columns \in UnkeyedColumns
          THEN {<<OldRow(columns, TheVideo, 1), OldRow(columns, TheVideo, 2)>>}
          ELSE {})

\* The videos table of the store file when setup_table runs.
SetupWorlds ==
    {NoTable} \cup
    UNION { { [exists |-> TRUE, columns |-> columns, rows |-> rows] : rows \in RowLists(columns) } :
              columns \in SchemaColumns }

\* main at `with Database(DATABASE_NAME) as db`, on either path.
InitSetup ==
    /\ pc = "db_setup"
    /\ path \in {"video", "channel"}
    /\ channel_input = (IF path = "video" THEN TheVideo ELSE TheChannel)
    /\ video_id = (IF path = "video" THEN TheVideo ELSE NoneVal)
    /\ channel_id = (IF path = "video" THEN NoneVal ELSE TheChannel)
    /\ skip_transcripts = FALSE
    /\ no_sheets = FALSE
    /\ sheets_manager = "none"
    /\ sheets_enabled = FALSE
    /\ sheet = <<>>
    /\ sheet_calls = <<Call("authenticate", 0, <<>>)>>
    /\ sheet_errors = 0
    /\ videos \in SetupWorlds
    /\ durable = videos
    /\ insert_calls = <<>>
    /\ video_ids = <<>>
    /\ next_page_token = 0
    /\ pages = <<>>
    /\ page_calls = <<>>
    /\ i = 0
    /\ batch_ids = <<>>
    /\ items = <<>>
    /\ video_data = <<>>
    /\ video_data_list = <<>>
    /\ k = 0
    /\ api_calls = <<>>
    /\ exit_code = -1
    /\ outcome = "running"
    /\ err_at = ""
    /\ interrupts = 0
    /\ tr_attempt = 0
    /\ tr_found = 0
    /\ tr_last = NoResolverCall

NextSetup == DbSetup

SpecSetup == InitSetup /\ [][NextSetup]_vars

\* ------------------------------------------------------------------ claims
Last(seq) == seq[Len(seq)]

RowSet(table) == {table.rows[n] : n \in 1..Len(table.rows)}

\* The latest insert_video call made for identifier id.
LastCallIndex(id) ==
    CHOOSE n \in 1..Len(insert_calls) :
        /\ insert_calls[n].id = id
        /\ \A m \in (n + 1)..Len(insert_calls) : insert_calls[m].id # id

RowsWithId(table, id) == {n \in 1..Len(table.rows) : table.rows[n].id = id}

\* C1: after any sequence of insert_video calls the videos table holds
\* exactly one row for every identifier inserted, and all nine columns of
\* that row are those of the latest call for the identifier.
C1_LastWriteWins ==
    /\ videos.columns = required_columns
    /\ \A c \in 1..Len(insert_calls) :
          LET id == insert_calls[c].id
              hits == RowsWithId(videos, id)
          IN /\ Cardinality(hits) = 1
             /\ \A n \in hits : videos.rows[n] = insert_calls[LastCallIndex(id)]

\* An identifier inserted with a transcript and different statistics, then
\* again without: the row holds the second call's values.
C1_Witness ==
    \E m, n \in 1..Len(insert_calls) :
        /\ m < n
        /\ insert_calls[m].id = insert_calls[n].id
        /\ insert_calls[m].transcript # NoneVal
        /\ insert_calls[m].like_count # insert_calls[n].like_count
        /\ insert_calls[n].transcript = NoneVal
        /\ n = LastCallIndex(insert_calls[n].id)
        /\ \E r \in RowSet(videos) : r = insert_calls[n]

\* C2: starting from a sheet without duplicate identifiers, after any
\* sequence of batch_insert_videos calls no identifier is in two rows.
C2_OneRowPerIdentifier == ~HasDuplicates(ColValues1(sheet))

\* C3: a run started with --no-sheets makes no call on the spreadsheet
\* provider, and a successful one has its records in the local store.
C3_NoSheetsSkipsSpreadsheet ==
    no_sheets =>
        /\ Len(sheet_calls) = 0
        /\ (outcome = "success" => \A n \in 1..Len(video_data_list) :
                                      video_data_list[n] \in RowSet(durable))

BadInputOutcomes == {"no_input", "handle_not_found", "video_not_found"}

\* C4: the exit code is 1 for an invalid or unresolvable input and for an
\* error that leaves main, and 0 exactly for a success or a user interrupt.
C4_ExitCodes ==
    pc = "exited" =>
        /\ (outcome \in BadInputOutcomes \cup {"error"} => exit_code = 1)
        /\ (exit_code = 0 <=> outcome \in {"success", "interrupt"})

\* C5: a user interrupt, wherever it is delivered, ends the run there with
\* exit code 0: no step of the run goes on after it.
C5_InterruptEndsRun ==
    interrupts > 0 => pc = "exited" /\ exit_code = 0 /\ outcome = "interrupt"

TrSteps == {"tr_list", "tr_find", "tr_fetch", "tr_join"}

\* C6: no error leaves get_video_transcript; when its listing, its last
\* lookup, its fetch or its join fails, get_video_statistics still appends
\* the video's record, with the transcript absent.
C6_TranscriptNeverRaises ==
    /\ (outcome = "error" => err_at \notin TrSteps)
    /\ (pc = "gs_item" /\ tr_last.how \in TrSteps =>
            /\ Len(video_data) > 0
            /\ Last(video_data).id = tr_last.id
            /\ Last(video_data).transcript = NoneVal)

\* The join of a fetched transcript failed and the record is there.
C6_Witness ==
    /\ pc = "gs_item"
    /\ tr_last.how = "tr_join"
    /\ Len(video_data) > 0
    /\ Last(video_data).transcript = NoneVal

PresentOrAbsent(t) == t = NoneVal \/ Strip(t) # ""

\* C7: in every record built and every row of the store and of the sheet
\* the transcript is None or a string that is not blank; it is None when
\* transcripts are skipped, when the resolver failed and when the joined
\* text is blank.
C7_TranscriptNeverBlank ==
    /\ \A n \in 1..Len(video_data) : PresentOrAbsent(video_data[n].transcript)
    /\ \A n \in 1..Len(video_data_list) : PresentOrAbsent(video_data_list[n].transcript)
    /\ \A r \in RowSet(videos) \cup RowSet(durable) : PresentOrAbsent(r.transcript)
    /\ \A n \in 1..Len(sheet) : Len(sheet[n]) = 9 => PresentOrAbsent(sheet[n][9])
    /\ (pc = "gs_item" /\ tr_last.how \in TrSteps \cup {"skipped", "blank"} =>
            Last(video_data).transcript = NoneVal)

\* A fetched transcript whose joined text was blank, stored as None.
C7_Witness ==
    /\ pc = "gs_item"
    /\ tr_last.how = "blank"
    /\ Len(video_data) > 0
    /\ Last(video_data).transcript = NoneVal

RECURSIVE Flatten(_)
Flatten(lists) == IF Len(lists) = 0 THEN <<>> ELSE Head(lists) \o Flatten(Tail(lists))

\* C8: for N identifiers the loop makes ceil(N / 50) videos.list calls, call
\* c carrying identifiers 50(c-1)+1 .. min(50c, N) in order: at most 50
\* each, exactly 50 in all but the last, together the whole list.
C8_Chunking ==
    LET N == Len(video_ids)
        calls == (N + 49) \div 50
    IN /\ Len(api_calls) <= calls
       /\ \A c \in 1..Len(api_calls) :
             /\ Len(api_calls[c]) <= 50
             /\ Len(api_calls[c]) >= 1
             /\ (c < calls => Len(api_calls[c]) = 50)
             /\ api_calls[c] = SubSeq(video_ids, 50 * (c - 1) + 1, Min(50 * c, N))
       /\ (outcome = "success" =>
             /\ Len(api_calls) = calls
             /\ Flatten(api_calls) = video_ids)

\* 120 identifiers fetched in calls of 50, 50 and 20.
C8_Witness ==
    /\ outcome = "success"
    /\ Len(video_ids) = 120
    /\ Len(api_calls) = 3
    /\ Len(api_calls[1]) = 50
    /\ Len(api_calls[2]) = 50
    /\ Len(api_calls[3]) = 20

IsElevenIdChars(s) == Len(s) = 11 /\ IsIdRun(s, 1, 11)

MatchesVideoPattern(s) ==
    \E p \in 1..Len(VideoPatterns) : FixedHits(s, VideoPatterns[p], 11) # {}

MatchesChannelPattern(s) ==
    \/ IsChannelIdShape(s)
    \/ \E p \in 1..Len(ChannelPatterns) : GreedyHits(s, ChannelPatterns[p]) # {}

Occurs(s, part) == \E n \in 1..Len(s) : MatchAt(s, n, part)

ChannelSteps ==
    {"lookup", "uploads", "playlist", "fetch_loop", "insert", "commit", "sheet_batch"}

\* C9: an input of exactly 11 identifier characters, and an input matching
\* both a video and a channel pattern, is run as a single video with the
\* identifier found in it; no step of the channel path is ever taken.
C9_VideoBeforeChannel ==
    (/\ path # "none"
     /\ \/ IsElevenIdChars(channel_input)
        \/ MatchesVideoPattern(channel_input) /\ MatchesChannelPattern(channel_input))
    => /\ path = "video"
       /\ pc \notin ChannelSteps
       /\ channel_id = NoneVal
       /\ Len(page_calls) = 0
       /\ IsElevenIdChars(video_id)
       /\ Occurs(channel_input, video_id)
       /\ (IsElevenIdChars(channel_input) => video_id = channel_input)
       /\ \A c \in 1..Len(api_calls) : api_calls[c] = <<video_id>>

\* An input matching a channel and a video pattern, fetched as one video.
C9_Witness ==
    /\ MatchesVideoPattern(channel_input)
    /\ MatchesChannelPattern(channel_input)
    /\ pc = "psv_store"
    /\ Len(video_data_list) = 1
    /\ video_data_list[1].id = TheVideo

\* C10: after a failed authentication no call but the authentication itself
\* is made on the spreadsheet, the failure does not end the run, and the
\* records of every fetched batch are committed to the local store.
C10_AuthFailureDisablesSheet ==
    /\ ~(outcome = "error" /\ err_at = "auth")
    /\ sheets_manager = "none" =>
          /\ ~sheets_enabled
          /\ Len(sheet_calls) = 1
          /\ sheet_calls[1].op = "authenticate"
          /\ (pc \in {"psv_sheet", "sheet_batch", "fetch_loop"} \/ outcome = "success" =>
                \A n \in 1..Len(video_data_list) :
                    video_data_list[n] \in RowSet(durable))

\* A channel run without spreadsheet that committed a fetched record.
C10_Witness ==
    /\ sheets_manager = "none"
    /\ outcome = "success"
    /\ path = "channel"
    /\ Len(video_data_list) > 0
    /\ Last(video_data_list) \in RowSet(durable)

ReadCalls == {n \in 1..Len(sheet_calls) : sheet_calls[n].op = "col_values"}

UploadedIds == {sheet[n][1] : n \in 1..Len(sheet)}

\* C11: an error of a spreadsheet call inside batch_insert_videos never
\* leaves it; the rows committed for the batch stay committed, and the run
\* fetches, commits and hands to the sheet every remaining batch.
C11_SheetFailureSwallowed ==
    /\ (outcome = "error" => err_at # "sheet_batch")
    /\ (pc = "fetch_loop" \/ outcome = "success" =>
            /\ durable = videos
            /\ \A n \in 1..Len(insert_calls) : insert_calls[n] \in RowSet(durable)
            /\ Cardinality(ReadCalls) = Len(api_calls))
    /\ (outcome = "success" =>
            Len(api_calls) = (Len(video_ids) + BatchSize - 1) \div BatchSize)

\* A run of several batches that ended well although the sheet call of the
\* first batch failed: its record is in the store and not in the sheet, a
\* record of the last batch is in both.
C11_Witness ==
    /\ outcome = "success"
    /\ sheet_errors > 0
    /\ Len(api_calls) > 2
    /\ Len(insert_calls) > 1
    /\ insert_calls[1].id \notin UploadedIds
    /\ insert_calls[1] \in RowSet(durable)
    /\ Last(insert_calls).id \in UploadedIds
    /\ Last(insert_calls) \in RowSet(durable)

FirstPosition(E, id) ==
    CHOOSE p \in 0..(Len(E) - 1) : E[p + 1] = id /\ \A q \in 1..p : E[q] # id

\* The calls the claim expects of one batch_insert_videos on a sheet whose
\* identifier column below the header is E.
ExpectedCalls(E, batch) ==
    LET new == SelectSeq(batch, LAMBDA v : ~InSeq(E, v.id))
        known == SelectSeq(batch, LAMBDA v : InSeq(E, v.id))
    IN <<Call("col_values", 1, <<>>)>>
       \o (IF Len(new) = 0 THEN <<>>
           ELSE <<Call("append_rows", 0, [n \in 1..Len(new) |-> RowData(new[n])])>>)
       \o [n \in 1..Len(known) |->
             Call("update", FirstPosition(E, known[n].id) + 2, <<RowData(known[n])>>)]

IsPrefix(s, full) == Len(s) <= Len(full) /\ s = SubSeq(full, 1, Len(s))

\* C14: one batch_insert_videos call reads the identifier column once, then
\* sends all records with a new identifier in one append (none when there
\* are none), then one update per record with a known identifier, to row
\* (first position in the column read) + 2 with the record's nine values;
\* rows of identifiers that are not in the batch are left as they were.
\* When a call raises, the calls made are the expected ones up to it.
C14_BatchCalls ==
    [][ sheet_calls' # sheet_calls =>
          LET E == ExistingIds(sheet)
              batch == video_data_list'
              made == SubSeq(sheet_calls', Len(sheet_calls) + 1, Len(sheet_calls'))
              expected == ExpectedCalls(E, batch)
              ids == {batch[n].id : n \in 1..Len(batch)}
          IN /\ Len(made) >= 1
             /\ IsPrefix(made, expected)
             /\ (sheet_errors' = sheet_errors => made = expected)
             /\ Len(sheet') >= Len(sheet)
             /\ \A n \in 1..Len(sheet) :
                   (n = 1 \/ sheet[n][1] \notin ids) => sheet'[n] = sheet[n] ]_vars

\* A call that appended a new record and updated a known one, no call of
\* the history having failed.
C14_Witness ==
    /\ sheet_errors = 0
    /\ Len(sheet_calls) >= 3
    /\ LET n == Len(sheet_calls) IN
          /\ sheet_calls[n - 2].op = "col_values"
          /\ sheet_calls[n - 1].op = "append_rows"
          /\ sheet_calls[n].op = "update"
          /\ sheet[sheet_calls[n].row_num] = sheet_calls[n].rows[1]
          /\ Last(sheet) = Last(sheet_calls[n - 1].rows)

\* The pages the calls made so far asked for, in the order of the calls.
PagesRequested == [m \in 1..Len(page_calls) |-> pages[page_calls[m] + 1]]

\* The first call carries no token; every later call carries the token of
\* the response before it; the loop is left exactly after a response
\* without a token, with the identifiers of all pages requested in order.
PaginationInvariant ==
    LET n == Len(page_calls) IN
    /\ n > 0 => page_calls[1] = 0
    /\ \A m \in 2..n :
          /\ page_calls[m] # 0
          /\ page_calls[m] = NextTokenOf(pages, page_calls[m - 1])
    /\ (pc = "playlist" /\ n > 0 =>
            /\ NextTokenOf(pages, page_calls[n]) # 0
            /\ next_page_token = NextTokenOf(pages, page_calls[n]))
    /\ (pc = "playlist" => video_ids = Flatten(PagesRequested))
    /\ (pc = "fetch_loop" =>
            /\ n > 0
            /\ NextTokenOf(pages, page_calls[n]) = 0
            /\ video_ids = Flatten(PagesRequested)
            /\ video_ids = Flatten(pages)
            /\ ~HasDuplicates(video_ids))

\* C15: the enumeration asks for the first page without a token and for
\* each later page with the token of the previous response, stops exactly
\* at a response without a token, returns the identifiers of the pages in
\* page and item order, and does stop when the provider omits the token.
C15_Pagination == []PaginationInvariant /\ <>(pc # "playlist")

\* A playlist of three pages enumerated to its end.
C15_Witness ==
    /\ pc = "fetch_loop"
    /\ Len(page_calls) > 2
    /\ Len(pages[1]) > 0
    /\ Len(video_ids) > 2

\* setup_table ran on an existing table and main went on.
SetupRan == pc = "db_setup" /\ pc' # "exited" /\ videos.exists

\* The table was created anew with the nine columns in their order.
Recreated == videos'.columns = required_columns /\ durable' = videos'

\* C16 as stated: the table is migrated whenever its column list differs
\* from the nine required columns, a different order included, and is left
\* unchanged with its rows when it does not differ.
C16_MigratesOnAnyDifference ==
    [][ SetupRan =>
          IF videos.columns # required_columns
          THEN Recreated
          ELSE videos' = videos ]_vars

\* C16 amended: the table is migrated whenever the set of its column names
\* differs from the set of the nine required names; when the sets are equal,
\* whatever the order of the columns, the table and its rows are unchanged.
C16_MigratesOnSetDifference ==
    [][ SetupRan =>
          IF SeqToSet(videos.columns) # SeqToSet(required_columns)
          THEN Recreated
          ELSE videos' = videos /\ durable' = durable ]_vars

\* A table holding the nine columns in another order, and rows, after
\* setup_table: still in that order, still with its rows.
C16_Witness ==
    /\ pc \in {"gs_call", "uploads"}
    /\ videos.exists
    /\ videos.columns # required_columns
    /\ SeqToSet(videos.columns) = SeqToSet(required_columns)
    /\ Len(videos.rows) > 0
    /\ durable = videos

\* C17: after a migration every row of the old table is in the new table
\* with its old values in the columns both schemas have and nothing in the
\* other columns: no value of a shared column is lost.
C17_MigrationKeepsRows ==
    [][ SetupRan /\ SchemaOutdated(videos.columns) =>
          LET shared == SeqToSet(videos.columns) \cap SeqToSet(required_columns)
          IN shared # {} =>
               \A n \in 1..Len(videos.rows) :
                   \E m \in 1..Len(durable'.rows) :
                       \A c \in SeqToSet(required_columns) :
                           durable'.rows[m][c] =
                               IF c \in shared THEN videos.rows[n][c] ELSE NullOf(c) ]_vars

\* C18: the single-video path stores what the batch path stores: every
\* record get_video_statistics returned to it, one with an absent count
\* included, is inserted and committed as the row insert_video makes of
\* it, unless the user interrupts the run.
C18_SingleVideoStoresRecord ==
    (/\ path = "video"
     /\ pc = "exited"
     /\ outcome # "interrupt"
     /\ Len(video_data_list) > 0)
    => /\ outcome = "success"
       /\ \A n \in 1..Len(video_data_list) :
             InsertVideoData(durable, video_data_list[n]) = durable

\* The batch in batch_ids is being fetched or inserted, or the run stopped
\* while it was, before its commit.
BatchOpen ==
    \/ pc \in {"gs_call", "gs_item", "insert", "commit"}
    \/ pc = "exited" /\ err_at \in {"gs_call", "insert", "commit"}

\* C19: the rows inserted for a batch are durable only from its commit on:
\* while a batch is open, and when the run stops with an error or an
\* interrupt in it, the store file holds the rows of every earlier batch
\* and no row of this one; every row handed to the sheet is a committed row.
C19_BatchAtomic ==
    /\ \A n \in 1..Len(insert_calls) :
          IF BatchOpen /\ InSeq(batch_ids, insert_calls[n].id)
          THEN insert_calls[n] \notin RowSet(durable)
          ELSE insert_calls[n] \in RowSet(durable)
    /\ \A c \in 1..Len(sheet_calls) : \A r \in 1..Len(sheet_calls[c].rows) :
          \E row \in RowSet(durable) : RowData(row) = sheet_calls[c].rows[r]
    /\ (pc = "exited" => videos = durable)

\* The run stopped while the second batch was being inserted, one of its
\* rows already inserted: the first batch's row is durable, that row is not.
C19_Witness ==
    /\ pc = "exited"
    /\ outcome \in {"error", "interrupt"}
    /\ err_at = "insert"
    /\ Len(api_calls) = 2
    /\ k > 0
    /\ Len(insert_calls) > 1
    /\ insert_calls[1] \in RowSet(durable)
    /\ Last(insert_calls) \notin RowSet(durable)

\* The classification result main holds for a channel input.
Classified == extract_channel_id(channel_input)

\* C20: get_uploads_playlist_id is reached without a handle lookup only with
\* a well-formed channel identifier (UC and 22 identifier characters); any
\* other classification result goes through the lookup first, and a lookup
\* that finds nothing ends the run with code 1, no sink touched.
C20_OnlyChannelIdsSkipLookup ==
    /\ (path = "channel" /\ pc = "uploads" => IsChannelIdShape(channel_id))
    /\ (path = "channel" /\ pc \in {"lookup", "auth"} /\ ~IsChannelIdShape(Classified) =>
            pc = "lookup" \/ channel_id # Classified)
    /\ (outcome = "handle_not_found" =>
            /\ exit_code = 1
            /\ Len(sheet_calls) = 0
            /\ Len(insert_calls) = 0)
====
